---- MODULE Spec2Model ----
(***************************************************************************)
(* The shared-ledger settlement engine of MoneyTrack                       *)
(* (src/shared_ledger/models.py) as a state machine over the rows of its   *)
(* tables.  Money is counted in cents (DecimalField, decimal_places = 2),  *)
(* time in ticks of a clock.                                               *)
(***************************************************************************)
EXTENDS Integers, FiniteSets, Sequences, TLC

(* ------------------------------ bounds --------------------------------- *)
MaxTime == 1
MaxMembers == 2
MaxExpenses == 1
MaxPayments == 1
MaxInvites == 1
MaxTransactions == 2
MaxSaves == 3
MaxWidgets == 5
MaxSeconds == 86500

Users == {"A", "B", "C"}
Ledgers == {"L1"}
Amounts == {1, 100}
ExactShares == {50}
PaymentAmounts == {50}
PaymentMethods == {"cash"}
SettleMethods == {""}
TieModes == {"half_even", "half_up"}
Inviters == {"A"}
\* The payer where it plays no part (settlement, storage failures).
Payers == {"A"}
\* The role where the invite's status is what matters.
InviteRoles == {"viewer"}
\* The statuses a member alternates between when leaving and returning.
LeaveStatus == {"active", "removed"}
\* An amount and a rounding where the division plays no part (deletion).
WholeAmounts == {100}
EvenTie == {"half_even"}
\* The statuses an invite is closed with by hand.
ClosedStatus == {"expired", "cancelled"}

\* Personal finance: who owns budgets, who records transactions, and what
\* the transactions are.  Money in cents; a transaction_date counts half
\* days (2 * d is midnight at the start of day d, 2 * d + 1 its noon).
BudgetUsers == {"A"}
BudgetNames == {"monthly"}
TxUsers == {"A", "B"}
TxTypes == {"expense", "income"}
Categories == {"food", "rent"}
TxAmounts == {40, 90}
TxDates == {1, 3, 5}
BudgetTotals == {100}
ItemAmounts == {100}
Thresholds == {80}
\* The budget period: the days start_date .. end_date.
PeriodStart == 1
PeriodEnd == 2
Shops == {"shop"}
\* The transactions of one user in one category inside the period.
OwnTxUsers == {"A"}
FoodOnly == {"food"}
ExpenseOnly == {"expense"}
InPeriod == {3}

\* The dashboard: who views it, how long they stay away (seconds), and the
\* widget they add.
DashUsers == {"A"}
Waits == {43200, 86500}
AddedWidgets == {"alerts"}

(* ------------------------- program constants --------------------------- *)
SecondsPerDay == 86400
DefaultRefreshInterval == 300
DefaultWidgets ==
    <<"account_balance", "monthly_summary", "spending_by_category",
      "recent_transactions">>
TRANSACTION_TYPES == {"income", "expense", "transfer"}
NoMerchant == "no merchant"
NoTime == -1
NoUser == "none"
MEMBER_STATUS == {"active", "invited", "inactive", "removed"}
ROLE_CHOICES == {"admin", "member", "viewer"}
LEDGER_STATUS == {"active", "paused", "archived", "closed"}
INVITE_STATUS == {"pending", "accepted", "declined", "expired", "cancelled"}

\* Who confirms a payment: a user, or nobody (confirmed_by_user = None).
Confirmers == {"A", NoUser}

VARIABLES
    now,          \* timezone.now()
    members,      \* shared_ledger_members, keyed (ledger, user)
    expenses,     \* shared_expenses, keyed by pk
    splits,       \* shared_expense_splits, keyed (expense, member)
    payments,     \* shared_payments, keyed by pk
    invites,      \* shared_ledger_invites, keyed by pk
    last,         \* the last call and what it returned or raised
    writer,       \* a SharedExpense.save under way in another session
    ledgers,      \* shared_ledgers, keyed by id
    transactions, \* transactions, keyed by pk
    merchants,    \* merchants, keyed by name
    budgets,      \* budgets (with their period), keyed by pk
    budget_items, \* budget_items, keyed (budget, category)
    widgets,      \* dashboard_widgets, keyed by pk
    layouts       \* dashboard_layouts: the users that have one

\* The tables of the personal-finance apps.
finance == <<transactions, merchants, budgets, budget_items, widgets, layouts>>

\* The tables of the shared_ledger app.
shared == <<ledgers, members, expenses, splits, payments, invites, writer>>

vars == <<now, members, expenses, splits, payments, invites, last, writer,
          ledgers, transactions, merchants, budgets, budget_items, widgets,
          layouts>>

MemberKeys == Ledgers \X Users

(* ------------------------------ helpers -------------------------------- *)
RECURSIVE SumAmounts(_, _)
SumAmounts(rows, keys) ==
    IF keys = {} THEN 0
    ELSE LET k == CHOOSE x \in keys : TRUE
         IN rows[k].amount + SumAmounts(rows, keys \ {k})

\* num/den cents stored in a DecimalField of 2 decimal places: rounded to the
\* nearest cent.  A tie goes the way the database backend rounds it (to even
\* where Django quantizes the value, up where the database does).
Quantize(num, den, tie) ==
    LET q == num \div den
        r == num % den
    IN  IF 2 * r > den THEN q + 1
        ELSE IF 2 * r = den
             THEN (IF tie = "half_even" THEN q + (q % 2) ELSE q + 1)
             ELSE q

Insert(table, key, row) ==
    [k \in DOMAIN table \cup {key} |-> IF k = key THEN row ELSE table[k]]

Restrict(table, keys) == [k \in keys |-> table[k]]

NextPk(table) == Cardinality(DOMAIN table) + 1

\* What `last` records: the call, the pk it was about (0 where none matters)
\* and what it returned or raised.
Called(op, id, result) == [op |-> op, id |-> id, result |-> result]

\* No save under way: `writer` holds the expense being saved (0 for none),
\* the active members whose split is still to be written and the values
\* computed for those splits.
Idle == [e |-> 0, todo |-> {}, amount |-> 0, percentage |-> 0]

\* A row of shared_ledgers with the column defaults.
NewLedger == [status |-> "active"]

(* ------------------------------ queries -------------------------------- *)
LedgerMembers(l) == {m \in DOMAIN members : m[1] = l}
ActiveMembers_AnyStatus(l) == LedgerMembers(l)
ActiveMembers(l) == {m \in LedgerMembers(l) : members[m].status = "active"}
LedgerExpenses(l) == {e \in DOMAIN expenses : expenses[e].ledger = l}
ExpenseSplits(e) == {s \in DOMAIN splits : s[1] = e}
SplitSum(e) == SumAmounts(splits, ExpenseSplits(e))

(* ------------------------------- Init ---------------------------------- *)
Init ==
    /\ now = 0
    /\ members = <<>>
    /\ expenses = <<>>
    /\ splits = <<>>
    /\ payments = <<>>
    /\ invites = <<>>
    /\ last = Called("none", 0, "ok")
    /\ writer = Idle
    /\ ledgers = [l \in Ledgers |-> NewLedger]
    /\ transactions = <<>>
    /\ merchants = <<>>
    /\ budgets = <<>>
    /\ budget_items = <<>>
    /\ widgets = <<>>
    /\ layouts = {}

(* ------------------------------- clock --------------------------------- *)
Tick ==
    /\ now < MaxTime
    /\ now' = now + 1
    /\ UNCHANGED <<members, expenses, splits, payments, invites, last, writer,
                   ledgers, finance>>

(* --------------------------- membership -------------------------------- *)
\* A row of shared_ledger_members with the column defaults.
NewMember(role) == [role |-> role, status |-> "active"]

SplitsWithout_Kept(m) == splits

\* on_delete = CASCADE from a member row: its splits, the payments it made or
\* received, and the related_splits links to the splits that go.
SplitsWithout(m) == Restrict(splits, {s \in DOMAIN splits : s[2] # m})

PaymentsWithout(m) ==
    LET keep == {p \in DOMAIN payments :
                    payments[p].from_member # m /\ payments[p].to_member # m}
    IN  [p \in keep |->
            [payments[p] EXCEPT
                !.related_splits = {s \in payments[p].related_splits : s[2] # m}]]

\* SharedLedgerMember.objects.create(ledger = l, user = u): unique_together
\* (ledger, user) admits one row per pair.
AddMember(l, u) ==
    /\ l \in DOMAIN ledgers
    /\ <<l, u>> \notin DOMAIN members
    /\ Cardinality(DOMAIN members) < MaxMembers
    /\ members' = Insert(members, <<l, u>>, NewMember("member"))
    /\ last' = Called("member", 0, "ok")
    /\ UNCHANGED <<now, expenses, splits, payments, invites, writer, ledgers, finance>>

\* member.status = s; member.save()
SetMemberStatus(m, s) ==
    /\ m \in DOMAIN members
    /\ members[m].status # s
    /\ members' = [members EXCEPT ![m].status = s]
    /\ last' = Called("member", 0, "ok")
    /\ UNCHANGED <<now, expenses, splits, payments, invites, writer, ledgers, finance>>

\* The rows a delete() reports as deleted from the splits and payments
\* tables (the number delete() returns counts them with the row itself).
RowsGone(splitsAfter, paymentsAfter) ==
    Cardinality(DOMAIN splits \ DOMAIN splitsAfter)
        + Cardinality(DOMAIN payments \ DOMAIN paymentsAfter)

\* member.delete(); `last` keeps the number of rows it deleted.
DeleteMember(m) ==
    /\ m \in DOMAIN members
    /\ members' = Restrict(members, DOMAIN members \ {m})
    /\ splits' = SplitsWithout(m)
    /\ payments' = PaymentsWithout(m)
    /\ last' = Called("delete_member",
                      1 + RowsGone(SplitsWithout(m), PaymentsWithout(m)), "ok")
    /\ UNCHANGED <<now, expenses, invites, writer, ledgers, finance>>

(* ------------------------------ ledgers -------------------------------- *)
\* ledger.status = s; ledger.save()
SetLedgerStatus(l, s) ==
    /\ l \in DOMAIN ledgers
    /\ ledgers[l].status # s
    /\ ledgers' = [ledgers EXCEPT ![l].status = s]
    /\ last' = Called("ledger_status", 0, "ok")
    /\ UNCHANGED <<now, members, expenses, splits, payments, invites, writer,
                   finance>>

\* ledger.delete(): on_delete = CASCADE from the ledger to its members,
\* expenses, payments and invites, and from those to splits and to the
\* related_splits links.
DeleteLedger(l) ==
    /\ l \in DOMAIN ledgers
    /\ LET membersAfter == Restrict(members, {m \in DOMAIN members : m[1] # l})
           expensesAfter == Restrict(expenses,
                               {e \in DOMAIN expenses : expenses[e].ledger # l})
           splitsAfter == Restrict(splits,
                               {s \in DOMAIN splits :
                                   /\ s[1] \in DOMAIN expensesAfter
                                   /\ s[2] \in DOMAIN membersAfter})
           keep == {p \in DOMAIN payments :
                       /\ payments[p].ledger # l
                       /\ payments[p].from_member \in DOMAIN membersAfter
                       /\ payments[p].to_member \in DOMAIN membersAfter}
           paymentsAfter == [p \in keep |->
                               [payments[p] EXCEPT !.related_splits =
                                   @ \cap DOMAIN splitsAfter]]
       IN  /\ ledgers' = Restrict(ledgers, DOMAIN ledgers \ {l})
           /\ members' = membersAfter
           /\ expenses' = expensesAfter
           /\ splits' = splitsAfter
           /\ payments' = paymentsAfter
           /\ invites' = Restrict(invites,
                              {i \in DOMAIN invites : invites[i].ledger # l})
           /\ last' = Called("delete_ledger",
                             1 + Cardinality(DOMAIN members \ DOMAIN membersAfter)
                               + Cardinality(DOMAIN expenses \ DOMAIN expensesAfter)
                               + RowsGone(splitsAfter, paymentsAfter), "ok")
    /\ UNCHANGED <<now, writer, finance>>

(* ----------------------------- expenses -------------------------------- *)
NewExpense(l, u, amt, method) ==
    [ledger |-> l, paid_by |-> u, amount |-> amt, split_method |-> method]

\* A row of shared_expense_splits: amount and percentage as given, the other
\* columns at their defaults.
NewSplit(amt, pct) ==
    [amount |-> amt, percentage |-> pct, shares |-> 1,
     is_settled |-> FALSE, settled_at |-> NoTime, settlement_method |-> ""]

\* SharedExpense.create_equal_splits for expense e of ledger l: the splits
\* table afterwards.  get_or_create leaves an existing (expense, member) row
\* as it is.  Called with at least one active member (see SaveNewEqual).
create_equal_splits(e, l, amt, tie) ==
    LET active_members == ActiveMembers(l)
        count == Cardinality(active_members)
        amount_per_person == Quantize(amt, count, tie)
        percentage == Quantize(100 * 100, count, tie)
    IN  [k \in DOMAIN splits \cup {<<e, m>> : m \in active_members} |->
            IF k \in DOMAIN splits THEN splits[k]
            ELSE NewSplit(amount_per_person, percentage)]

\* SharedExpense.save of a new expense (self.pk is None) with
\* split_method = 'equal'.  The row is written first; the division by
\* active_members.count() raises when the ledger has no active member.
SaveNewEqual(l, u, amt, tie) ==
    /\ l \in DOMAIN ledgers
    /\ Cardinality(DOMAIN expenses) < MaxExpenses
    /\ LET e == NextPk(expenses)
       IN  /\ expenses' = Insert(expenses, e, NewExpense(l, u, amt, "equal"))
           /\ IF ActiveMembers(l) = {}
              THEN /\ splits' = splits
                   /\ last' = Called("save_new_equal", e, "ZeroDivisionError")
              ELSE /\ splits' = create_equal_splits(e, l, amt, tie)
                   /\ last' = Called("save_new_equal", e, "ok")
    /\ UNCHANGED <<now, members, payments, invites, writer, ledgers, finance>>

\* expense.create_equal_splits() on an expense that exists: get_or_create
\* finds the rows of the pairs that have one and writes only the others.
ReinvokeEqualSplits(e, tie) ==
    /\ e \in DOMAIN expenses
    /\ IF ActiveMembers(expenses[e].ledger) = {}
       THEN /\ splits' = splits
            /\ last' = Called("create_equal_splits", e, "ZeroDivisionError")
       ELSE /\ splits' = create_equal_splits(e, expenses[e].ledger,
                                             expenses[e].amount, tie)
            /\ last' = Called("create_equal_splits", e, "ok")
    /\ UNCHANGED <<now, members, expenses, payments, invites, writer, ledgers, finance>>

\* The per-member amounts a caller can supply for an 'exact' expense.
Supplied(l) == UNION {[S -> ExactShares] : S \in SUBSET LedgerMembers(l)}

RECURSIVE SuppliedSum(_, _)
SuppliedSum(supplied, keys) ==
    IF keys = {} THEN 0
    ELSE LET k == CHOOSE x \in keys : TRUE
         IN supplied[k] + SuppliedSum(supplied, keys \ {k})

\* Creating an expense with split_method = 'exact': SharedExpense.save writes
\* the row and generates nothing; the caller's amounts become split rows
\* (SharedExpenseSplit.objects.create).  Nothing compares them to the amount.
SaveNewExact(l, u, amt, supplied) ==
    /\ l \in DOMAIN ledgers
    /\ Cardinality(DOMAIN expenses) < MaxExpenses
    /\ LET e == NextPk(expenses)
       IN  /\ expenses' = Insert(expenses, e, NewExpense(l, u, amt, "exact"))
           /\ splits' = [k \in DOMAIN splits \cup {<<e, m>> : m \in DOMAIN supplied} |->
                            IF k \in DOMAIN splits THEN splits[k]
                            ELSE NewSplit(supplied[k[2]], 0)]
           /\ last' = Called("save_new_exact", e, "ok")
    /\ UNCHANGED <<now, members, payments, invites, writer, ledgers, finance>>

\* SharedExpense.save of an existing expense with another amount: is_new is
\* false, so the splits are not touched.
Resave(e, amt) ==
    /\ e \in DOMAIN expenses
    /\ expenses[e].amount # amt
    /\ expenses' = [expenses EXCEPT ![e].amount = amt]
    /\ last' = Called("save", e, "ok")
    /\ UNCHANGED <<now, members, splits, payments, invites, writer, ledgers, finance>>

(* ----------------------------- balances -------------------------------- *)
\* sum(expense.amount for expense in self.expenses.filter(paid_by = member.user))
total_paid(l, u) ==
    SumAmounts(expenses, {e \in LedgerExpenses(l) : expenses[e].paid_by = u})

total_share_Unsettled(l, m) ==
    SumAmounts(splits, {s \in DOMAIN splits :
                          /\ s[1] \in LedgerExpenses(l)
                          /\ s[2] = m
                          /\ ~splits[s].is_settled})

\* The member's split of every expense of the ledger, added up.
total_share(l, m) ==
    SumAmounts(splits, {s \in DOMAIN splits : s[1] \in LedgerExpenses(l) /\ s[2] = m})

\* SharedLedger.calculate_balances: an entry per row of self.members.all(),
\* keyed by the member's user.
calculate_balances(l) ==
    [u \in {m[2] : m \in LedgerMembers(l)} |->
        [total_paid  |-> total_paid(l, u),
         total_share |-> total_share(l, <<l, u>>),
         balance     |-> total_paid(l, u) - total_share(l, <<l, u>>)]]

RECURSIVE SumBalances(_, _)
SumBalances(balances, keys) ==
    IF keys = {} THEN 0
    ELSE LET k == CHOOSE x \in keys : TRUE
         IN balances[k].balance + SumBalances(balances, keys \ {k})

(* ----------------------------- payments -------------------------------- *)
\* A row of shared_payments with the column defaults; related_splits is
\* filled after the row exists.
NewPayment(l, from, to, amt, method) ==
    [ledger |-> l, from_member |-> from, to_member |-> to, amount |-> amt,
     payment_method |-> method, is_confirmed |-> FALSE,
     confirmed_by |-> NoUser, confirmed_at |-> NoTime, related_splits |-> {}]

\* SharedPayment.objects.create(...)
CreatePayment(l, from, to, amt, method) ==
    /\ l \in DOMAIN ledgers
    /\ Cardinality(DOMAIN payments) < MaxPayments
    /\ from \in DOMAIN members
    /\ to \in DOMAIN members
    /\ LET p == NextPk(payments)
       IN  /\ payments' = Insert(payments, p, NewPayment(l, from, to, amt, method))
           /\ last' = Called("create_payment", p, "ok")
    /\ UNCHANGED <<now, members, expenses, splits, invites, writer, ledgers, finance>>

\* payment.related_splits.add(split)
AddRelatedSplit(p, s) ==
    /\ p \in DOMAIN payments
    /\ s \in DOMAIN splits
    /\ s \notin payments[p].related_splits
    /\ payments' = [payments EXCEPT ![p].related_splits = @ \cup {s}]
    /\ last' = Called("add_related_split", p, "ok")
    /\ UNCHANGED <<now, members, expenses, splits, invites, writer, ledgers, finance>>

Settled_NoTimestamp(row, method) ==
    [row EXCEPT !.is_settled = TRUE, !.settlement_method = method]

Settled_Toggle(row, method) ==
    [row EXCEPT !.is_settled = ~row.is_settled, !.settled_at = now,
                !.settlement_method = method]

\* SharedExpenseSplit.settle on a row: the row afterwards.
Settled(row, method) ==
    [row EXCEPT !.is_settled = TRUE, !.settled_at = now,
                !.settlement_method = method]

\* split.settle(method)
settle(s, method) ==
    /\ s \in DOMAIN splits
    /\ splits' = [splits EXCEPT ![s] = Settled(@, method)]
    /\ last' = Called("settle", 0, "ok")
    /\ UNCHANGED <<now, members, expenses, payments, invites, writer, ledgers, finance>>

SplitsToSettle_WholeLedger(p) ==
    {s \in DOMAIN splits : expenses[s[1]].ledger = payments[p].ledger}

\* The splits confirm_payment walks: self.related_splits.all()
SplitsToSettle(p) == payments[p].related_splits

\* SharedPayment.confirm_payment(confirmed_by_user): no test of is_confirmed.
confirm_payment(p, confirmed_by_user) ==
    /\ p \in DOMAIN payments
    /\ payments' = [payments EXCEPT ![p].is_confirmed = TRUE,
                                    ![p].confirmed_by = confirmed_by_user,
                                    ![p].confirmed_at = now]
    /\ splits' = [s \in DOMAIN splits |->
                    IF s \in SplitsToSettle(p)
                    THEN Settled(splits[s], payments[p].payment_method)
                    ELSE splits[s]]
    /\ last' = Called("confirm_payment", p, "ok")
    /\ UNCHANGED <<now, members, expenses, invites, writer, ledgers, finance>>

(* ------------------------------ invites -------------------------------- *)
NewInvite(l, by, role, expires_at) ==
    [ledger |-> l, invited_by |-> by, invited_user |-> NoUser,
     proposed_role |-> role, status |-> "pending",
     expires_at |-> expires_at, responded_at |-> NoTime]

\* SharedLedgerInvite.objects.create(...)
CreateInvite(l, by, role, expires_at) ==
    /\ l \in DOMAIN ledgers
    /\ Cardinality(DOMAIN invites) < MaxInvites
    /\ LET i == NextPk(invites)
       IN  /\ invites' = Insert(invites, i, NewInvite(l, by, role, expires_at))
           /\ last' = Called("create_invite", i, "ok")
    /\ UNCHANGED <<now, members, expenses, splits, payments, writer, ledgers, finance>>

\* invite.status = s; invite.save(): an invite closed without an answer.
\* No method of the model class writes 'expired' or 'cancelled'.
SetInviteStatus(i, s) ==
    /\ i \in DOMAIN invites
    /\ invites[i].status = "pending"
    /\ invites' = [invites EXCEPT ![i].status = s]
    /\ last' = Called("invite_status", i, "ok")
    /\ UNCHANGED <<now, members, expenses, splits, payments, writer, ledgers, finance>>

CanAccept_NoExpiry(i) == invites[i].status = "pending"

\* The test that opens SharedLedgerInvite.accept.
CanAccept(i) ==
    invites[i].status = "pending" /\ now <= invites[i].expires_at

\* SharedLedgerInvite.accept(user).  The invite is saved as accepted before
\* the member row is created; unique_together (ledger, user) makes that
\* creation raise for a user who is a member already.
accept(i, user) ==
    /\ i \in DOMAIN invites
    /\ IF CanAccept(i)
       THEN /\ invites' = [invites EXCEPT ![i].status = "accepted",
                                          ![i].invited_user = user,
                                          ![i].responded_at = now]
            /\ IF <<invites[i].ledger, user>> \in DOMAIN members
               THEN /\ members' = members
                    /\ last' = Called("accept", i, "IntegrityError")
               ELSE /\ members' = Insert(members, <<invites[i].ledger, user>>,
                                         NewMember(invites[i].proposed_role))
                    /\ last' = Called("accept", i, "True")
       ELSE /\ invites' = invites
            /\ members' = members
            /\ last' = Called("accept", i, "False")
    /\ UNCHANGED <<now, expenses, splits, payments, writer, ledgers, finance>>

CanDecline_AnyStatus(i) == TRUE

\* The test that opens SharedLedgerInvite.decline.
CanDecline(i) == invites[i].status = "pending"

\* SharedLedgerInvite.decline()
decline(i) ==
    /\ i \in DOMAIN invites
    /\ IF CanDecline(i)
       THEN /\ invites' = [invites EXCEPT ![i].status = "declined",
                                          ![i].responded_at = now]
            /\ last' = Called("decline", i, "True")
       ELSE /\ invites' = invites
            /\ last' = Called("decline", i, "False")
    /\ UNCHANGED <<now, members, expenses, splits, payments, writer, ledgers, finance>>

(* --------------------------- transactions ------------------------------ *)
\* A row of merchants with the column defaults.
NewMerchant ==
    [total_transactions |-> 0, total_amount_spent |-> 0,
     first_transaction_date |-> NoTime, last_transaction_date |-> NoTime]

\* Merchant.objects.create(user = ..., name = name)
CreateMerchant(name) ==
    /\ name \notin DOMAIN merchants
    /\ merchants' = Insert(merchants, name, NewMerchant)
    /\ last' = Called("create_merchant", 0, "ok")
    /\ UNCHANGED <<now, shared, transactions, budgets, budget_items, widgets, layouts>>

NewTransaction(u, type, amt, category, merchant, date) ==
    [user |-> u, type |-> type, amount |-> amt, category |-> category,
     merchant |-> merchant, transaction_date |-> date]

\* The test that opens Transaction.save: the transaction has a merchant and
\* is an expense, new or not.
MerchantCounted(row) == row.merchant # NoMerchant /\ row.type = "expense"

\* The merchant statistics Transaction.save writes before the row itself.
MerchantsAfterSave(row) ==
    IF MerchantCounted(row)
    THEN [merchants EXCEPT
            ![row.merchant].total_transactions = @ + 1,
            ![row.merchant].total_amount_spent = @ + row.amount,
            ![row.merchant].first_transaction_date =
                IF @ = NoTime THEN row.transaction_date ELSE @,
            ![row.merchant].last_transaction_date = row.transaction_date]
    ELSE merchants

\* Transaction.save of a new transaction.
SaveNewTransaction(u, type, amt, category, merchant, date) ==
    /\ Cardinality(DOMAIN transactions) < MaxTransactions
    /\ merchant # NoMerchant => merchant \in DOMAIN merchants
    /\ merchant # NoMerchant => merchants[merchant].total_transactions < MaxSaves
    /\ LET t == NextPk(transactions)
           row == NewTransaction(u, type, amt, category, merchant, date)
       IN  /\ merchants' = MerchantsAfterSave(row)
           /\ transactions' = Insert(transactions, t, row)
           /\ last' = Called("save_transaction", t, "ok")
    /\ UNCHANGED <<now, shared, budgets, budget_items, widgets, layouts>>

\* Transaction.save of a transaction that exists, with another amount.
ResaveTransaction(t, amt) ==
    /\ t \in DOMAIN transactions
    /\ transactions[t].merchant # NoMerchant
          => merchants[transactions[t].merchant].total_transactions < MaxSaves
    /\ LET row == [transactions[t] EXCEPT !.amount = amt]
       IN  /\ merchants' = MerchantsAfterSave(row)
           /\ transactions' = [transactions EXCEPT ![t] = row]
           /\ last' = Called("save_transaction", t, "ok")
    /\ UNCHANGED <<now, shared, budgets, budget_items, widgets, layouts>>

(* ------------------------------ budgets -------------------------------- *)
\* percentage_used = spent / total * 100, kept as the fraction it is.
Percentage(spent, total) ==
    IF total > 0 THEN [num |-> spent * 100, den |-> total]
    ELSE [num |-> 0, den |-> 1]

\* A DateField value compared with a DateTimeField: the date becomes the
\* datetime of its midnight.
Midnight(d) == 2 * d

\* A row of budgets with the column defaults, its period included.
NewBudget(total, threshold) ==
    [total_budget_amount |-> total, alert_threshold_percentage |-> threshold,
     start_date |-> PeriodStart, end_date |-> PeriodEnd,
     total_spent |-> 0, remaining_amount |-> 0,
     percentage_used |-> Percentage(0, 1),
     last_calculated_at |-> NoTime, alert_sent_at |-> NoTime]

\* Budget.objects.create(user = u, name = name, ...): unique_together
\* (user, name, period).
CreateBudget(u, name, total, threshold) ==
    /\ <<u, name>> \notin DOMAIN budgets
    /\ budgets' = Insert(budgets, <<u, name>>, NewBudget(total, threshold))
    /\ last' = Called("create_budget", 0, "ok")
    /\ UNCHANGED <<now, shared, transactions, merchants, budget_items, widgets, layouts>>

NewBudgetItem(amt) ==
    [budgeted_amount |-> amt, spent_amount |-> 0, remaining_amount |-> 0,
     percentage_used |-> Percentage(0, 1)]

\* BudgetItem.objects.create(budget = b, category = c, ...): unique_together
\* (budget, category).
AddBudgetItem(b, c, amt) ==
    /\ b \in DOMAIN budgets
    /\ <<b, c>> \notin DOMAIN budget_items
    /\ budget_items' = Insert(budget_items, <<b, c>>, NewBudgetItem(amt))
    /\ last' = Called("create_budget_item", 0, "ok")
    /\ UNCHANGED <<now, shared, transactions, merchants, budgets, widgets, layouts>>

BudgetItems(b) == {k \in DOMAIN budget_items : k[1] = b}

\* Transaction.objects.filter(user, category, type = 'expense',
\* transaction_date__range = [period.start_date, period.end_date])
ItemTransactions(b, c) ==
    {t \in DOMAIN transactions :
        /\ transactions[t].user = b[1]
        /\ transactions[t].category = c
        /\ transactions[t].type = "expense"
        /\ Midnight(budgets[b].start_date) <= transactions[t].transaction_date
        /\ transactions[t].transaction_date <= Midnight(budgets[b].end_date)}

item_spent(b, c) == SumAmounts(transactions, ItemTransactions(b, c))

RECURSIVE SumItemSpent(_, _)
SumItemSpent(b, keys) ==
    IF keys = {} THEN 0
    ELSE LET k == CHOOSE x \in keys : TRUE
         IN item_spent(b, k[2]) + SumItemSpent(b, keys \ {k})

\* Budget.calculate_spent_amount
calculate_spent_amount(b) ==
    /\ b \in DOMAIN budgets
    /\ budget_items' =
          [k \in DOMAIN budget_items |->
              IF k[1] = b
              THEN [budget_items[k] EXCEPT
                      !.spent_amount = item_spent(b, k[2]),
                      !.remaining_amount =
                          budget_items[k].budgeted_amount - item_spent(b, k[2]),
                      !.percentage_used =
                          Percentage(item_spent(b, k[2]),
                                     budget_items[k].budgeted_amount)]
              ELSE budget_items[k]]
    /\ LET spent == SumItemSpent(b, BudgetItems(b))
       IN  budgets' = [budgets EXCEPT
              ![b].total_spent = spent,
              ![b].remaining_amount = budgets[b].total_budget_amount - spent,
              ![b].percentage_used =
                  Percentage(spent, budgets[b].total_budget_amount),
              ![b].last_calculated_at = now]
    /\ last' = Called("calculate_spent_amount", 0, "ok")
    /\ UNCHANGED <<now, shared, transactions, merchants, widgets, layouts>>

AlertDue_NoLatch(b) ==
    budgets[b].percentage_used.num
        >= budgets[b].alert_threshold_percentage * budgets[b].percentage_used.den

\* The test that opens Budget.check_alert_threshold.
AlertDue(b) ==
    /\ budgets[b].percentage_used.num
          >= budgets[b].alert_threshold_percentage * budgets[b].percentage_used.den
    /\ budgets[b].alert_sent_at = NoTime

\* Budget.check_alert_threshold
check_alert_threshold(b) ==
    /\ b \in DOMAIN budgets
    /\ IF AlertDue(b)
       THEN /\ budgets' = [budgets EXCEPT ![b].alert_sent_at = now]
            /\ last' = Called("check_alert_threshold", 0, "True")
       ELSE /\ budgets' = budgets
            /\ last' = Called("check_alert_threshold", 0, "False")
    /\ UNCHANGED <<now, shared, transactions, merchants, budget_items, widgets, layouts>>

(* ----------------------------- dashboard ------------------------------ *)
\* The clock moving on by d seconds.
Elapse(d) ==
    /\ now + d <= MaxSeconds
    /\ now' = now + d
    /\ UNCHANGED <<last, shared, finance>>

\* A row of dashboard_widgets with the column defaults (cached_data, which
\* nothing here reads, is left out).
NewWidget(u, type) ==
    [user |-> u, widget_type |-> type, is_visible |-> TRUE,
     refresh_interval |-> DefaultRefreshInterval, last_updated |-> NoTime]

\* The widget table after DashboardWidget.objects.create for each type of
\* `types`, in turn.
RECURSIVE WithWidgets(_, _, _)
WithWidgets(table, u, types) ==
    IF types = <<>> THEN table
    ELSE WithWidgets(Insert(table, NextPk(table), NewWidget(u, Head(types))),
                     u, Tail(types))

\* manage_widgets (POST): one more widget for the user.
manage_widgets(u, type) ==
    /\ Cardinality(DOMAIN widgets) < MaxWidgets
    /\ widgets' = WithWidgets(widgets, u, <<type>>)
    /\ last' = Called("manage_widgets", 0, "ok")
    /\ UNCHANGED <<now, shared, transactions, merchants, budgets, budget_items,
                   layouts>>

\* widget.is_visible = v; widget.save()
SetWidgetVisible(w, v) ==
    /\ w \in DOMAIN widgets
    /\ widgets[w].is_visible # v
    /\ widgets' = [widgets EXCEPT ![w].is_visible = v]
    /\ last' = Called("widget_visible", w, "ok")
    /\ UNCHANGED <<now, shared, transactions, merchants, budgets, budget_items,
                   layouts>>

\* timedelta.seconds of a difference of delta seconds: the seconds left over
\* after the whole days.
Seconds(delta) == delta % SecondsPerDay

\* The test of the dashboard view on a widget row.
NeedsRefresh(row) ==
    \/ row.last_updated = NoTime
    \/ Seconds(now - row.last_updated) > row.refresh_interval

\* DashboardWidget.refresh_data on a row: the row afterwards.
Refreshed(row) == [row EXCEPT !.last_updated = now]

\* The dashboard view for user u: the layout and the default widgets on the
\* first visit, then a refresh of each visible widget that needs one.
dashboard(u) ==
    /\ u \notin layouts => Cardinality(DOMAIN widgets) + Len(DefaultWidgets) <= MaxWidgets
    /\ layouts' = layouts \cup {u}
    /\ LET shown == IF u \in layouts THEN widgets
                    ELSE WithWidgets(widgets, u, DefaultWidgets)
       IN  widgets' = [w \in DOMAIN shown |->
                         IF /\ shown[w].user = u
                            /\ shown[w].is_visible
                            /\ NeedsRefresh(shown[w])
                         THEN Refreshed(shown[w])
                         ELSE shown[w]]
    /\ last' = Called("dashboard", 0, "ok")
    /\ UNCHANGED <<now, shared, transactions, merchants, budgets, budget_items>>

(* ------------------------- specifications ------------------------------ *)
\* Members of every status and new equal-split expenses.
Next ==
    \/ \E l \in Ledgers, u \in Users : AddMember(l, u)
    \/ \E m \in MemberKeys, s \in MEMBER_STATUS : SetMemberStatus(m, s)
    \/ \E l \in Ledgers, u \in Users, amt \in Amounts, tie \in TieModes :
          SaveNewEqual(l, u, amt, tie)

Spec == Init /\ [][Next]_vars

\* Every operation on members, expenses and their splits.
NextLedger ==
    \/ \E l \in Ledgers, u \in Users : AddMember(l, u)
    \/ \E m \in MemberKeys, s \in MEMBER_STATUS : SetMemberStatus(m, s)
    \/ \E m \in MemberKeys : DeleteMember(m)
    \/ \E l \in Ledgers, u \in Users, amt \in Amounts, tie \in TieModes :
          SaveNewEqual(l, u, amt, tie)
    \/ \E l \in Ledgers, u \in Users, amt \in Amounts :
          \E supplied \in Supplied(l) : SaveNewExact(l, u, amt, supplied)
    \/ \E e \in 1..MaxExpenses, amt \in Amounts : Resave(e, amt)

SpecLedger == Init /\ [][NextLedger]_vars

\* Equal splits generated again after the membership changed.
NextResplit ==
    \/ \E l \in Ledgers, u \in Users : AddMember(l, u)
    \/ \E m \in MemberKeys, s \in MEMBER_STATUS : SetMemberStatus(m, s)
    \/ \E l \in Ledgers, u \in Payers, amt \in Amounts, tie \in TieModes :
          SaveNewEqual(l, u, amt, tie)
    \/ \E e \in 1..MaxExpenses, tie \in TieModes : ReinvokeEqualSplits(e, tie)

SpecResplit == Init /\ [][NextResplit]_vars

\* Members joining and equal-split expenses paid by any user.
NextEqual ==
    \/ \E l \in Ledgers, u \in Users : AddMember(l, u)
    \/ \E l \in Ledgers, u \in Users, amt \in Amounts, tie \in TieModes :
          SaveNewEqual(l, u, amt, tie)

SpecEqual == Init /\ [][NextEqual]_vars

\* Payments against the splits of equal-split expenses.
NextPayment ==
    \/ Tick
    \/ \E l \in Ledgers, u \in Users : AddMember(l, u)
    \/ \E l \in Ledgers, u \in Payers, amt \in Amounts, tie \in TieModes :
          SaveNewEqual(l, u, amt, tie)
    \/ \E l \in Ledgers, from \in MemberKeys, to \in MemberKeys :
          \E amt \in PaymentAmounts, method \in PaymentMethods :
              CreatePayment(l, from, to, amt, method)
    \/ \E p \in 1..MaxPayments, e \in 1..MaxExpenses, m \in MemberKeys :
          AddRelatedSplit(p, <<e, m>>)
    \/ \E e \in 1..MaxExpenses, m \in MemberKeys, method \in SettleMethods :
          settle(<<e, m>>, method)
    \/ \E p \in 1..MaxPayments, u \in Confirmers : confirm_payment(p, u)

SpecPayment == Init /\ [][NextPayment]_vars

\* Invitations.
NextInvite ==
    \/ Tick
    \/ \E l \in Ledgers, u \in Users : AddMember(l, u)
    \/ \E l \in Ledgers, by \in Inviters, role \in ROLE_CHOICES, t \in 0..MaxTime :
          CreateInvite(l, by, role, t)
    \/ \E i \in 1..MaxInvites, u \in Users : accept(i, u)
    \/ \E i \in 1..MaxInvites : decline(i)

SpecInvite == Init /\ [][NextInvite]_vars

\* A ledger in every status, with expenses and payments created in it.
NextArchive ==
    \/ \E l \in Ledgers, u \in Users : AddMember(l, u)
    \/ \E l \in Ledgers, s \in LEDGER_STATUS : SetLedgerStatus(l, s)
    \/ \E l \in Ledgers, u \in Payers, amt \in Amounts, tie \in TieModes :
          SaveNewEqual(l, u, amt, tie)
    \/ \E l \in Ledgers, from \in MemberKeys, to \in MemberKeys :
          \E amt \in PaymentAmounts, method \in PaymentMethods :
              CreatePayment(l, from, to, amt, method)

SpecArchive == Init /\ [][NextArchive]_vars

\* Rows deleted: members leaving (status) or deleted, the ledger deleted,
\* with expenses, splits and payments that refer to them.
NextLifecycle ==
    \/ \E l \in Ledgers, u \in Users : AddMember(l, u)
    \/ \E m \in MemberKeys, s \in LeaveStatus : SetMemberStatus(m, s)
    \/ \E m \in MemberKeys : DeleteMember(m)
    \/ \E l \in Ledgers : DeleteLedger(l)
    \/ \E l \in Ledgers, u \in Payers, amt \in WholeAmounts, tie \in EvenTie :
          SaveNewEqual(l, u, amt, tie)
    \/ \E l \in Ledgers, from \in MemberKeys, to \in MemberKeys :
          \E amt \in PaymentAmounts, method \in PaymentMethods :
              CreatePayment(l, from, to, amt, method)
    \/ \E p \in 1..MaxPayments, e \in 1..MaxExpenses, m \in MemberKeys :
          AddRelatedSplit(p, <<e, m>>)

SpecLifecycle == Init /\ [][NextLifecycle]_vars

\* Invitations answered or closed, in every status.
NextInviteStatus ==
    \/ Tick
    \/ \E l \in Ledgers, u \in Users : AddMember(l, u)
    \/ \E l \in Ledgers, by \in Inviters, role \in InviteRoles, t \in 0..MaxTime :
          CreateInvite(l, by, role, t)
    \/ \E i \in 1..MaxInvites, s \in ClosedStatus : SetInviteStatus(i, s)
    \/ \E i \in 1..MaxInvites, u \in Users : accept(i, u)
    \/ \E i \in 1..MaxInvites : decline(i)

SpecInviteStatus == Init /\ [][NextInviteStatus]_vars

\* A budget calculated over transactions of every kind.
NextBudget ==
    \/ \E u \in BudgetUsers, name \in BudgetNames :
          \E total \in BudgetTotals, threshold \in Thresholds :
              CreateBudget(u, name, total, threshold)
    \/ \E b \in BudgetUsers \X BudgetNames, c \in Categories, amt \in ItemAmounts :
          AddBudgetItem(b, c, amt)
    \/ \E u \in TxUsers, type \in TxTypes, amt \in TxAmounts :
          \E c \in Categories, date \in TxDates :
              SaveNewTransaction(u, type, amt, c, NoMerchant, date)
    \/ \E b \in BudgetUsers \X BudgetNames : calculate_spent_amount(b)

SpecBudget == Init /\ [][NextBudget]_vars

\* A budget whose spending rises and falls, with its alert.
NextAlert ==
    \/ Tick
    \/ \E u \in BudgetUsers, name \in BudgetNames :
          \E total \in BudgetTotals, threshold \in Thresholds :
              CreateBudget(u, name, total, threshold)
    \/ \E b \in BudgetUsers \X BudgetNames, c \in FoodOnly, amt \in ItemAmounts :
          AddBudgetItem(b, c, amt)
    \/ \E u \in OwnTxUsers, type \in ExpenseOnly, amt \in TxAmounts :
          \E c \in FoodOnly, date \in InPeriod :
              SaveNewTransaction(u, type, amt, c, NoMerchant, date)
    \/ \E t \in 1..MaxTransactions, amt \in TxAmounts : ResaveTransaction(t, amt)
    \/ \E b \in BudgetUsers \X BudgetNames : calculate_spent_amount(b)
    \/ \E b \in BudgetUsers \X BudgetNames : check_alert_threshold(b)

SpecAlert == Init /\ [][NextAlert]_vars

\* Transactions saved and saved again, with and without a merchant.
NextMerchant ==
    \/ \E name \in Shops : CreateMerchant(name)
    \/ \E u \in OwnTxUsers, type \in TxTypes, amt \in TxAmounts :
          \E c \in FoodOnly, merchant \in Shops \cup {NoMerchant}, date \in TxDates :
              SaveNewTransaction(u, type, amt, c, merchant, date)
    \/ \E t \in 1..MaxTransactions, amt \in TxAmounts : ResaveTransaction(t, amt)

SpecMerchant == Init /\ [][NextMerchant]_vars

\* The dashboard viewed again and again as time passes.
NextDashboard ==
    \/ \E d \in Waits : Elapse(d)
    \/ \E u \in DashUsers, type \in AddedWidgets : manage_widgets(u, type)
    \/ \E w \in 1..MaxWidgets, v \in BOOLEAN : SetWidgetVisible(w, v)
    \/ \E u \in DashUsers : dashboard(u)

SpecDashboard == Init /\ [][NextDashboard]_vars

(* ---------------------- storage failing part-way ----------------------- *)
\* SharedExpense.save of a new equal-split expense when the database fails
\* inside the loop of create_equal_splits: neither save nor
\* create_equal_splits opens a transaction, so the expense row and the
\* splits written so far (those of `created`) are committed one by one.
SaveNewEqualFails(l, u, amt, tie, created) ==
    /\ l \in DOMAIN ledgers
    /\ Cardinality(DOMAIN expenses) < MaxExpenses
    /\ created \subseteq ActiveMembers(l)
    /\ created # ActiveMembers(l)
    /\ LET e == NextPk(expenses)
       IN  /\ expenses' = Insert(expenses, e, NewExpense(l, u, amt, "equal"))
           /\ splits' = Restrict(create_equal_splits(e, l, amt, tie),
                                 DOMAIN splits \cup {<<e, m>> : m \in created})
           /\ last' = Called("save_new_equal", e, "DatabaseError")
    /\ UNCHANGED <<now, members, payments, invites, writer, ledgers, finance>>

\* SharedPayment.confirm_payment when the database fails inside the loop over
\* related_splits: the payment row was saved as confirmed before the loop and
\* the splits of `done` were settled.
ConfirmPaymentFails(p, confirmed_by_user, done) ==
    /\ p \in DOMAIN payments
    /\ done \subseteq SplitsToSettle(p)
    /\ done # SplitsToSettle(p)
    /\ payments' = [payments EXCEPT ![p].is_confirmed = TRUE,
                                    ![p].confirmed_by = confirmed_by_user,
                                    ![p].confirmed_at = now]
    /\ splits' = [s \in DOMAIN splits |->
                    IF s \in done
                    THEN Settled(splits[s], payments[p].payment_method)
                    ELSE splits[s]]
    /\ last' = Called("confirm_payment", p, "DatabaseError")
    /\ UNCHANGED <<now, members, expenses, invites, writer, ledgers, finance>>

\* Expense creation and payment confirmation, each with and without a
\* storage failure.
NextFault ==
    \/ \E l \in Ledgers, u \in Users : AddMember(l, u)
    \/ \E l \in Ledgers, u \in Payers, amt \in Amounts, tie \in TieModes :
          SaveNewEqual(l, u, amt, tie)
    \/ \E l \in Ledgers, from \in MemberKeys, to \in MemberKeys :
          \E amt \in PaymentAmounts, method \in PaymentMethods :
              CreatePayment(l, from, to, amt, method)
    \/ \E p \in 1..MaxPayments, e \in 1..MaxExpenses, m \in MemberKeys :
          AddRelatedSplit(p, <<e, m>>)
    \/ \E p \in 1..MaxPayments, u \in Confirmers : confirm_payment(p, u)
    \/ \E l \in Ledgers, u \in Payers, amt \in Amounts, tie \in TieModes :
          \E created \in SUBSET MemberKeys : SaveNewEqualFails(l, u, amt, tie, created)
    \/ \E p \in 1..MaxPayments, u \in Confirmers :
          \E done \in SUBSET ((1..MaxExpenses) \X MemberKeys) :
              ConfirmPaymentFails(p, u, done)

SpecFault == Init /\ [][NextFault]_vars

(* ------------------------- two sessions -------------------------------- *)
\* One session saves a new equal-split expense while another computes the
\* balances.  Neither SharedExpense.save, create_equal_splits nor
\* calculate_balances opens a transaction, so every INSERT is committed as it
\* is made and is visible to the other session from then on.

\* SharedExpense.save up to the INSERT of the expense row, and
\* create_equal_splits up to its loop: the active members are counted and
\* the per-person values computed.
BeginSaveNewEqual(l, u, amt, tie) ==
    /\ l \in DOMAIN ledgers
    /\ writer = Idle
    /\ Cardinality(DOMAIN expenses) < MaxExpenses
    /\ ActiveMembers(l) # {}
    /\ LET e == NextPk(expenses)
           count == Cardinality(ActiveMembers(l))
       IN  /\ expenses' = Insert(expenses, e, NewExpense(l, u, amt, "equal"))
           /\ writer' = [e |-> e, todo |-> ActiveMembers(l),
                         amount |-> Quantize(amt, count, tie),
                         percentage |-> Quantize(100 * 100, count, tie)]
           /\ last' = Called("save_new_equal", e, "running")
    /\ UNCHANGED <<now, members, splits, payments, invites, ledgers, finance>>

\* One turn of the loop of create_equal_splits: get_or_create for member m.
WriteSplit(m) ==
    /\ m \in writer.todo
    /\ splits' = IF <<writer.e, m>> \in DOMAIN splits THEN splits
                  ELSE Insert(splits, <<writer.e, m>>,
                              NewSplit(writer.amount, writer.percentage))
    /\ writer' = IF writer.todo = {m} THEN Idle
                  ELSE [writer EXCEPT !.todo = @ \ {m}]
    /\ last' = Called("save_new_equal", writer.e,
                      IF writer.todo = {m} THEN "ok" ELSE "running")
    /\ UNCHANGED <<now, members, expenses, payments, invites, ledgers, finance>>

\* ledger.calculate_balances() in the other session, taken as one read of
\* the rows committed so far; `last` keeps what it returned.
ReadBalances(l) ==
    /\ last.op # "calculate_balances"
    /\ last' = [op |-> "calculate_balances", id |-> 0, result |-> "ok",
                ledger |-> l, balances |-> calculate_balances(l)]
    /\ UNCHANGED <<now, members, expenses, splits, payments, invites, writer,
                   ledgers, finance>>

\* calculate_balances over given expense and split tables.
BalancesIn(exps, spls, l) ==
    [u \in {m[2] : m \in LedgerMembers(l)} |->
        LET paid == SumAmounts(exps, {e \in DOMAIN exps :
                                        exps[e].ledger = l /\ exps[e].paid_by = u})
            share == SumAmounts(spls, {s \in DOMAIN spls :
                                        /\ s[1] \in DOMAIN exps
                                        /\ exps[s[1]].ledger = l
                                        /\ s[2] = <<l, u>>})
        IN  [total_paid |-> paid, total_share |-> share, balance |-> paid - share]]

NextConcurrent ==
    \/ \E l \in Ledgers, u \in Users : AddMember(l, u)
    \/ \E l \in Ledgers, u \in Users, amt \in Amounts, tie \in TieModes :
          BeginSaveNewEqual(l, u, amt, tie)
    \/ \E m \in MemberKeys : WriteSplit(m)
    \/ \E l \in Ledgers : ReadBalances(l)

SpecConcurrent == Init /\ [][NextConcurrent]_vars

(* ============================== claims ================================= *)

\* C1: a new equal-split expense saved in a ledger with N >= 1 active
\* members has splits whose stored amounts add up to the expense amount.
C1_EqualSplitsSumToAmount ==
    (last.op = "save_new_equal" /\ last.result = "ok")
        => SplitSum(last.id) = expenses[last.id].amount

\* C2: saving a new equal-split expense creates one split for each member of
\* the ledger whose status is 'active' and none for any other member.
C2_OneSplitPerActiveMember ==
    last.op = "save_new_equal"
        => {s[2] : s \in {k \in DOMAIN splits : k[1] = last.id}}
             = {m \in DOMAIN members :
                   /\ m[1] = expenses[last.id].ledger
                   /\ members[m].status = "active"}

C2_Witness ==
    /\ last.op = "save_new_equal"
    /\ last.result = "ok"
    /\ \E m \in DOMAIN members :
          m[1] = expenses[last.id].ledger /\ members[m].status # "active"
    /\ \E k \in DOMAIN splits : k[1] = last.id

\* C3: confirming a payment that is confirmed already is a StateError that
\* changes neither confirmed_by, confirmed_at nor any split.
C3_SecondConfirmRejected ==
    [][\A p \in 1..MaxPayments, u \in Confirmers :
          (/\ p \in DOMAIN payments
           /\ payments[p].is_confirmed
           /\ confirm_payment(p, u))
          => /\ last'.result = "StateError"
             /\ payments'[p].confirmed_by = payments[p].confirmed_by
             /\ payments'[p].confirmed_at = payments[p].confirmed_at
             /\ splits' = splits]_vars

\* C4: with every expense an equal-split expense paid by a member of the
\* ledger, each balance is total_paid - total_share and the balances of the
\* ledger add up to 0.
C4_BalancesSumToZero ==
    \A l \in Ledgers :
        (\A e \in LedgerExpenses(l) : <<l, expenses[e].paid_by>> \in DOMAIN members)
        => LET balances == calculate_balances(l)
           IN  /\ \A u \in DOMAIN balances :
                     balances[u].balance
                        = balances[u].total_paid - balances[u].total_share
               /\ SumBalances(balances, DOMAIN balances) = 0

\* C5: confirming a payment settles every split of its related_splits and
\* leaves every other split exactly as it was.
C5_ConfirmSettlesOnlyReferenced ==
    [][\A p \in 1..MaxPayments, u \in Confirmers :
          confirm_payment(p, u)
          => /\ DOMAIN splits' = DOMAIN splits
             /\ \A s \in DOMAIN splits :
                   IF s \in payments[p].related_splits
                   THEN splits'[s].is_settled
                   ELSE splits'[s] = splits[s]]_vars

C5_Witness ==
    /\ last.op = "confirm_payment"
    /\ \E s \in payments[last.id].related_splits : splits[s].is_settled
    /\ \E s \in DOMAIN splits \ payments[last.id].related_splits :
          ~splits[s].is_settled

\* C6: accept on an invite after its expires_at returns False, creates no
\* member and leaves the invite as it was.
C6_ExpiredAcceptFails ==
    [][\A i \in 1..MaxInvites, u \in Users :
          (/\ i \in DOMAIN invites
           /\ now > invites[i].expires_at
           /\ accept(i, u))
          => /\ last'.result = "False"
             /\ members' = members
             /\ invites' = invites]_vars

C6_Witness ==
    /\ last.op = "accept"
    /\ last.result = "False"
    /\ invites[last.id].status = "pending"
    /\ now > invites[last.id].expires_at

\* C7: creating an 'exact' expense whose supplied amounts do not add up to
\* the expense amount fails with a ValidationError and persists neither the
\* expense nor a split.
C7_ExactMismatchRejected ==
    [][\A l \in Ledgers, u \in Users, amt \in Amounts :
          \A supplied \in Supplied(l) :
              (/\ SuppliedSum(supplied, DOMAIN supplied) # amt
               /\ SaveNewExact(l, u, amt, supplied))
              => /\ last'.result = "ValidationError"
                 /\ expenses' = expenses
                 /\ splits' = splits]_vars

\* C8: every confirmed payment has confirmed_at and confirmed_by set and
\* only settled splits in its related_splits.
C8_ConfirmedPaymentComplete ==
    \A p \in DOMAIN payments :
        payments[p].is_confirmed
        => /\ payments[p].confirmed_at # NoTime
           /\ payments[p].confirmed_by # NoUser
           /\ \A s \in payments[p].related_splits : splits[s].is_settled

\* C9: equal-split generation and payment confirmation are atomic: a save
\* never leaves an expense with the splits of only some active members, and
\* a confirmation never leaves a confirmed payment with an unsettled
\* referenced split, also when the step fails part-way.
C9_NoPartialResult ==
    /\ (last.op = "save_new_equal" /\ last.id \in DOMAIN expenses)
          => {s[2] : s \in {k \in DOMAIN splits : k[1] = last.id}}
               = {m \in DOMAIN members :
                     /\ m[1] = expenses[last.id].ledger
                     /\ members[m].status = "active"}
    /\ (/\ last.op = "confirm_payment"
        /\ last.id \in DOMAIN payments
        /\ payments[last.id].is_confirmed)
          => \A s \in payments[last.id].related_splits : splits[s].is_settled

\* C10: the splits of every equal-split expense add up to the expense amount
\* within the rounding tolerance (a cent per split), in every reachable state.
C10_EqualExpenseSplitsReconcile ==
    \A e \in DOMAIN expenses :
        expenses[e].split_method = "equal"
        => LET diff == SplitSum(e) - expenses[e].amount
               tolerance == Cardinality(ExpenseSplits(e))
           IN  diff <= tolerance /\ -diff <= tolerance

\* C11: a confirmed payment stays confirmed, and the confirmed_by and
\* confirmed_at of its first confirmation are never replaced.
C11_ConfirmationTerminal ==
    [][\A p \in DOMAIN payments :
          (payments[p].is_confirmed /\ p \in DOMAIN payments')
          => /\ payments'[p].is_confirmed
             /\ payments'[p].confirmed_by = payments[p].confirmed_by
             /\ payments'[p].confirmed_at = payments[p].confirmed_at]_vars

\* C12: on an invite that is not pending, accept and decline return False,
\* leave status, invited_user and responded_at as they were and create no
\* member; the only changes of status accept and decline make are
\* pending -> accepted (accept) and pending -> declined (decline).
C12_InviteStatesTerminal ==
    [][\A i \in DOMAIN invites :
          /\ \A u \in Users :
                (invites[i].status # "pending" /\ (accept(i, u) \/ decline(i)))
                => /\ last'.result = "False"
                   /\ invites'[i].status = invites[i].status
                   /\ invites'[i].invited_user = invites[i].invited_user
                   /\ invites'[i].responded_at = invites[i].responded_at
                   /\ members' = members
          /\ \A u \in Users :
                (accept(i, u) /\ invites'[i].status # invites[i].status)
                => invites[i].status = "pending" /\ invites'[i].status = "accepted"
          /\ (decline(i) /\ invites'[i].status # invites[i].status)
                => invites[i].status = "pending" /\ invites'[i].status = "declined"
      ]_vars

C12_Witness ==
    /\ last.op \in {"accept", "decline"}
    /\ last.result = "False"
    /\ invites[last.id].status \in {"expired", "cancelled", "accepted", "declined"}
    /\ now <= invites[last.id].expires_at

\* C13: accept on a pending invite that has not expired sets it to accepted
\* and creates exactly one member of the invite's ledger for the accepting
\* user, with the invite's proposed_role; decline changes only the invite's
\* status and responded_at and no member row.
C13_AcceptCreatesOneMember ==
    [][\A i \in DOMAIN invites :
          /\ \A u \in Users :
                (/\ invites[i].status = "pending"
                 /\ now <= invites[i].expires_at
                 /\ accept(i, u))
                => LET m == <<invites[i].ledger, u>>
                   IN  /\ invites'[i].status = "accepted"
                       /\ DOMAIN members' \ DOMAIN members = {m}
                       /\ members'[m].role = invites[i].proposed_role
                       /\ \A k \in DOMAIN members : members'[k] = members[k]
          /\ decline(i)
                => /\ members' = members
                   /\ invites' = [invites EXCEPT
                                     ![i].status = invites'[i].status,
                                     ![i].responded_at = invites'[i].responded_at]
      ]_vars

\* C14: every settled split has its settled_at set.
C14_SettledHasTimestamp ==
    \A s \in DOMAIN splits : splits[s].is_settled => splits[s].settled_at # NoTime

C14_Witness ==
    \E s \in DOMAIN splits : splits[s].is_settled /\ splits[s].settled_at = now

\* C15: a split becomes settled only in settle() on it or in confirm_payment
\* of a payment whose related_splits holds it, and a settled split never
\* becomes unsettled again.
C15_SettledOnlyBySettleOrConfirm ==
    [][\A s \in DOMAIN splits \cap DOMAIN splits' :
          /\ (~splits[s].is_settled /\ splits'[s].is_settled)
                => \/ \E method \in SettleMethods : settle(s, method)
                   \/ \E p \in DOMAIN payments, u \in Confirmers :
                         s \in payments[p].related_splits /\ confirm_payment(p, u)
          /\ splits[s].is_settled => splits'[s].is_settled
      ]_vars

C15_Witness ==
    /\ last.op = "confirm_payment"
    /\ \E s \in DOMAIN splits : splits[s].is_settled /\ splits[s].settled_at < now
    /\ \E s \in DOMAIN splits : ~splits[s].is_settled

\* C16: settling a split or confirming a payment leaves the balances of
\* every ledger (total_paid, total_share, balance of every member) as they
\* were.
C16_BalancesIgnoreSettlement ==
    [][(\/ \E s \in DOMAIN splits, method \in SettleMethods : settle(s, method)
        \/ \E p \in DOMAIN payments, u \in Confirmers : confirm_payment(p, u))
       => \A l \in Ledgers : calculate_balances(l)' = calculate_balances(l)]_vars

C16_Witness ==
    /\ last.op \in {"settle", "confirm_payment"}
    /\ \E s \in DOMAIN splits : splits[s].is_settled /\ splits[s].amount > 0
    /\ \E l \in Ledgers :
          \E u \in DOMAIN calculate_balances(l) :
              calculate_balances(l)[u].total_share > 0

\* C20: settle() on a split that is settled already is a StateError and
\* leaves its settled_at and settlement_method as the first settlement
\* recorded them.
C20_SecondSettleRejected ==
    [][\A s \in DOMAIN splits, method \in SettleMethods :
          (splits[s].is_settled /\ settle(s, method))
          => /\ last'.result = "StateError"
             /\ splits'[s].settled_at = splits[s].settled_at
             /\ splits'[s].settlement_method = splits[s].settlement_method]_vars

\* C17: calculate_balances has an entry for each active member of the ledger
\* and for no other member, with total_paid the amounts of the ledger's
\* expenses the member paid, total_share the member's split amounts over the
\* ledger's expenses, and balance = total_paid - total_share.
C17_BalancesOfActiveMembers ==
    \A l \in Ledgers :
        LET balances == calculate_balances(l)
        IN  /\ DOMAIN balances
                 = {m[2] : m \in {k \in DOMAIN members :
                                     k[1] = l /\ members[k].status = "active"}}
            /\ \A u \in DOMAIN balances :
                  /\ balances[u].total_paid
                       = SumAmounts(expenses,
                            {e \in DOMAIN expenses :
                                expenses[e].ledger = l /\ expenses[e].paid_by = u})
                  /\ balances[u].total_share
                       = SumAmounts(splits,
                            {k \in DOMAIN splits :
                                expenses[k[1]].ledger = l /\ k[2] = <<l, u>>})
                  /\ balances[u].balance
                       = balances[u].total_paid - balances[u].total_share

\* C18: after create_equal_splits runs again on an expense, the split of
\* each active member carries the expense amount divided by the current
\* number of active members (no pair ever has two splits: the table is
\* keyed by the pair).
C18_ReinvokeUpdatesSplits ==
    (last.op = "create_equal_splits" /\ last.result = "ok")
    => LET e == last.id
           active == {m \in DOMAIN members :
                        /\ m[1] = expenses[e].ledger
                        /\ members[m].status = "active"}
       IN  \A m \in active :
              /\ <<e, m>> \in DOMAIN splits
              /\ \E tie \in TieModes :
                    splits[<<e, m>>].amount
                        = Quantize(expenses[e].amount, Cardinality(active), tie)

\* C19: the balances computed while another session saves an expense with
\* its splits are those of the ledger either without that expense or with
\* the expense and all of its splits.
C19_BalancesReadConsistent ==
    last.op = "calculate_balances"
    => LET l == last.ledger
           others == DOMAIN expenses \ {writer.e}
           before == BalancesIn(Restrict(expenses, others),
                                Restrict(splits, {s \in DOMAIN splits : s[1] # writer.e}),
                                l)
           after == BalancesIn(expenses,
                               [k \in DOMAIN splits \cup {<<writer.e, m>> : m \in writer.todo}
                                   |-> IF k \in DOMAIN splits THEN splits[k]
                                       ELSE NewSplit(writer.amount, writer.percentage)],
                               l)
       IN  last.balances = before \/ last.balances = after

\* C21: accept on a pending, unexpired invite for a user who is a member of
\* the ledger already is rejected as a whole: the member table is unchanged
\* and the invite keeps its status, invited_user and responded_at.
C21_DuplicateAcceptRejected ==
    [][\A i \in DOMAIN invites, u \in Users :
          (/\ invites[i].status = "pending"
           /\ now <= invites[i].expires_at
           /\ <<invites[i].ledger, u>> \in DOMAIN members
           /\ accept(i, u))
          => /\ members' = members
             /\ invites'[i].status = invites[i].status
             /\ invites'[i].invited_user = invites[i].invited_user
             /\ invites'[i].responded_at = invites[i].responded_at]_vars

\* C22: in a ledger whose status is 'archived' or 'closed' no step adds an
\* expense, a split or a payment.
C22_ArchivedLedgerFrozen ==
    [][\A l \in DOMAIN ledgers :
          ledgers[l].status \in {"archived", "closed"}
          => /\ {e \in DOMAIN expenses' : expenses'[e].ledger = l}
                   \subseteq DOMAIN expenses
             /\ {k \in DOMAIN splits' : expenses'[k[1]].ledger = l}
                   \subseteq DOMAIN splits
             /\ {p \in DOMAIN payments' : payments'[p].ledger = l}
                   \subseteq DOMAIN payments]_vars

\* C23: every payment connects two distinct members of its own ledger and
\* refers only to splits of expenses of that ledger.
C23_PaymentWithinLedger ==
    \A p \in DOMAIN payments :
        /\ payments[p].from_member # payments[p].to_member
        /\ payments[p].from_member[1] = payments[p].ledger
        /\ payments[p].to_member[1] = payments[p].ledger
        /\ \A k \in payments[p].related_splits :
              expenses[k[1]].ledger = payments[p].ledger

\* C24: no row refers to a ledger or a member that is gone (deleting a
\* ledger takes its members, expenses, splits and payments with it, deleting
\* a member takes the member's splits), and changing a member's status
\* deletes no split and no payment.
C24_CascadeLeavesNoOrphan ==
    [][/\ \A m \in DOMAIN members' : m[1] \in DOMAIN ledgers'
       /\ \A e \in DOMAIN expenses' : expenses'[e].ledger \in DOMAIN ledgers'
       /\ \A k \in DOMAIN splits' :
             k[1] \in DOMAIN expenses' /\ k[2] \in DOMAIN members'
       /\ \A p \in DOMAIN payments' :
             /\ payments'[p].ledger \in DOMAIN ledgers'
             /\ payments'[p].from_member \in DOMAIN members'
             /\ payments'[p].to_member \in DOMAIN members'
             /\ payments'[p].related_splits \subseteq DOMAIN splits'
       /\ \A m \in DOMAIN members :
             (m \in DOMAIN members' /\ members'[m].status # members[m].status)
             => splits' = splits /\ payments' = payments]_vars

C24_Witness ==
    /\ last.op = "delete_member"
    /\ last.id >= 3
    /\ splits # <<>>

\* C25: every split generated by the equal policy has a stored amount of at
\* least 0.01.
C25_EqualSplitsPositive ==
    \A k \in DOMAIN splits :
        expenses[k[1]].split_method = "equal" => splits[k].amount >= 1

\* C27: saving a new equal-split expense in a ledger without an active
\* member reports an error and leaves no expense row and no split of it.
C27_NoActiveMemberFailsCleanly ==
    (last.op = "save_new_equal" /\ last.result = "ZeroDivisionError")
    => /\ last.id \notin DOMAIN expenses
       /\ \A k \in DOMAIN splits : k[1] # last.id

\* C26: after calculate_spent_amount each item's spent_amount is the sum of
\* the budget owner's expense transactions in the item's category dated
\* within the budget period (start_date .. end_date), its remaining_amount is
\* budgeted_amount - spent_amount, and the budget's total_spent is the sum of
\* the items' spent_amount with remaining_amount = total_budget_amount -
\* total_spent.
C26_BudgetSumsReconcile ==
    last.op = "calculate_spent_amount"
    => \A b \in DOMAIN budgets :
          LET items == {k \in DOMAIN budget_items : k[1] = b}
              inPeriod(t) ==
                  /\ budgets[b].start_date <= transactions[t].transaction_date \div 2
                  /\ transactions[t].transaction_date \div 2 <= budgets[b].end_date
              counted(c) == {t \in DOMAIN transactions :
                               /\ transactions[t].user = b[1]
                               /\ transactions[t].type = "expense"
                               /\ transactions[t].category = c
                               /\ inPeriod(t)}
              spentSum[S \in SUBSET items] ==
                  IF S = {} THEN 0
                  ELSE LET k == CHOOSE x \in S : TRUE
                       IN budget_items[k].spent_amount + spentSum[S \ {k}]
          IN  /\ \A k \in items :
                    /\ budget_items[k].spent_amount
                          = SumAmounts(transactions, counted(k[2]))
                    /\ budget_items[k].remaining_amount
                          = budget_items[k].budgeted_amount
                              - budget_items[k].spent_amount
              /\ budgets[b].total_spent = spentSum[items]
              /\ budgets[b].remaining_amount
                    = budgets[b].total_budget_amount - budgets[b].total_spent

\* C28: check_alert_threshold returns True exactly when percentage_used has
\* reached alert_threshold_percentage and no alert was sent before, and sets
\* alert_sent_at then; otherwise it returns False and leaves the budget as
\* it is; an alert_sent_at once set is never changed, so the alert fires at
\* most once.
C28_AlertFiresOnce ==
    [][\A b \in DOMAIN budgets :
          /\ check_alert_threshold(b)
                => IF /\ budgets[b].percentage_used.num
                            >= budgets[b].alert_threshold_percentage
                                 * budgets[b].percentage_used.den
                      /\ budgets[b].alert_sent_at = NoTime
                   THEN /\ last'.result = "True"
                        /\ budgets'[b].alert_sent_at = now
                   ELSE /\ last'.result = "False"
                        /\ budgets' = budgets
          /\ budgets[b].alert_sent_at # NoTime
                => budgets'[b].alert_sent_at = budgets[b].alert_sent_at
      ]_vars

C28_Witness ==
    /\ last.op = "check_alert_threshold"
    /\ last.result = "False"
    /\ \E b \in DOMAIN budgets :
          /\ budgets[b].alert_sent_at # NoTime
          /\ budgets[b].alert_sent_at < budgets[b].last_calculated_at
          /\ budgets[b].percentage_used.num
                >= budgets[b].alert_threshold_percentage
                     * budgets[b].percentage_used.den

\* C29: a merchant's total_transactions is the number of its expense
\* transactions and its total_amount_spent the sum of their amounts, after
\* first saves and re-saves alike.
C29_MerchantTotalsMatch ==
    \A m \in DOMAIN merchants :
        LET own == {t \in DOMAIN transactions :
                      transactions[t].merchant = m /\ transactions[t].type = "expense"}
        IN  /\ merchants[m].total_transactions = Cardinality(own)
            /\ merchants[m].total_amount_spent = SumAmounts(transactions, own)

\* C30: a view of the dashboard refreshes every visible widget of the user
\* that was never refreshed or was last refreshed more than refresh_interval
\* seconds ago (a day or more included), and leaves alone a widget refreshed
\* less than refresh_interval seconds ago.
C30_StaleWidgetsRefreshed ==
    [][\A u \in DashUsers :
          dashboard(u)
          => \A w \in DOMAIN widgets :
                (widgets[w].user = u /\ widgets[w].is_visible)
                => /\ (\/ widgets[w].last_updated = NoTime
                       \/ now - widgets[w].last_updated > widgets[w].refresh_interval)
                         => widgets'[w].last_updated = now
                   /\ (/\ widgets[w].last_updated # NoTime
                       /\ now - widgets[w].last_updated < widgets[w].refresh_interval)
                         => widgets'[w] = widgets[w]]_vars
====
